---- MODULE Spec2Model ----
(***************************************************************************)
(* dzdsu: mods of a DayZ dedicated server (src/dzdsu/mods.py and           *)
(* src/dzdsu/constants.py).                                                *)
(*                                                                         *)
(* Strings are sequences of one-character strings, so that str.lower(),    *)
(* str(int), str.join() and the "*.pbo" glob work on characters.  A path   *)
(* is [abs, parts]: whether it is absolute, and its components.  An        *)
(* optional value is a sequence of length at most one (<<>> is None).      *)
(***************************************************************************)
EXTENDS Integers, Sequences, FiniteSets, TLC

VARIABLES
    call,   \* the call made on Mod, InstalledMod.path or mods_str, with its arguments
    ret,    \* what that call returned, or the exception it raised
    top,    \* the entries of the install path of the mod
    sub,    \* the entries of its directories Addons and addons
    base,   \* InstalledMod.base_dir
    last,   \* the last file system operation and what it logged
    err,    \* the exception that operation raised, "" if none
    runs    \* the number of fix_paths runs so far

vars == <<call, ret, top, sub, base, last, err, runs>>
modVars == <<call, ret>>
fsVars == <<top, sub, base, last, err, runs>>

(***************************************************************************)
(* Bounds of the model: the largest mod id, the longest mod list, the      *)
(* number of fix_paths runs on one installation.                           *)
(***************************************************************************)
MaxId == 11
MaxMods == 3
MaxRuns == 2

(***************************************************************************)
(* Characters and strings.                                                 *)
(***************************************************************************)
Upper == <<"A", "F", "K", "O">>
Lower == <<"a", "f", "k", "o">>

lower_char(c) ==
    IF \E i \in 1..Len(Upper) : Upper[i] = c
    THEN Lower[CHOOSE i \in 1..Len(Upper) : Upper[i] = c]
    ELSE c

lower(s) == [i \in 1..Len(s) |-> lower_char(s[i])]

digit(d) == <<"0", "1", "2", "3", "4", "5", "6", "7", "8", "9">>[d + 1]

RECURSIVE str_nat(_)
str_nat(n) == IF n < 10 THEN <<digit(n)>> ELSE str_nat(n \div 10) \o <<digit(n % 10)>>

str_int(n) == IF n < 0 THEN <<"-">> \o str_nat(0 - n) ELSE str_nat(n)

RECURSIVE join(_, _)
join(sep, strs) ==
    IF strs = <<>> THEN <<>>
    ELSE IF Len(strs) = 1 THEN strs[1]
    ELSE strs[1] \o sep \o join(sep, Tail(strs))

endswith(s, suffix) ==
    /\ Len(s) >= Len(suffix)
    /\ SubSeq(s, Len(s) - Len(suffix) + 1, Len(s)) = suffix

(***************************************************************************)
(* constants.py                                                            *)
(***************************************************************************)
DAYZ_APP_ID == 221100

RelPath(parts) == [abs |-> FALSE, parts |-> parts]

path_join(a, b) ==
    IF b.abs THEN b ELSE [abs |-> a.abs, parts |-> a.parts \o b.parts]

path_str(p) ==
    IF p.abs THEN <<"/">> \o join(<<"/">>, p.parts)
    ELSE IF p.parts = <<>> THEN <<".">>
    ELSE join(<<"/">>, p.parts)

MODS_BASE_DIR ==
    RelPath(<< <<"s", "t", "e", "a", "m", "a", "p", "p", "s">>,
               <<"w", "o", "r", "k", "s", "h", "o", "p">>,
               <<"c", "o", "n", "t", "e", "n", "t">> >>)

MODS_DIR == path_join(MODS_BASE_DIR, RelPath(<<str_int(DAYZ_APP_ID)>>))

(***************************************************************************)
(* class Mod                                                               *)
(***************************************************************************)
None == <<>>

Mod(id, name, enabled, update) ==
    [id |-> id, name |-> name, enabled |-> enabled, update |-> update]

Return(v) == [exc |-> "", val |-> <<v>>]
Raise(e) == [exc |-> e, val |-> <<>>]

abs(n) == IF n < 0 THEN 0 - n ELSE n

\* from_id without abs(): a negative id is kept as it is.
from_id_keep_sign(ident, name, update) ==
    IF ident = 0 THEN Raise("ValueError")
    ELSE IF ident < 0 THEN Return(Mod(ident, name, FALSE, update))
    ELSE Return(Mod(ident, name, TRUE, update))

from_id(ident, name, update) ==
    IF ident = 0 THEN Raise("ValueError")
    ELSE IF ident < 0 THEN Return(Mod(abs(ident), name, FALSE, update))
    ELSE Return(Mod(ident, name, TRUE, update))

\* from_json without update=: the flag of the record is not passed on.
from_json_drop_update(json) ==
    IF "id" \notin DOMAIN json THEN Raise("KeyError")
    ELSE from_id(json.id,
                 IF "name" \in DOMAIN json THEN <<json.name>> ELSE None,
                 TRUE)

from_json(json) ==
    IF "id" \notin DOMAIN json THEN Raise("KeyError")
    ELSE from_id(json.id,
                 IF "name" \in DOMAIN json THEN <<json.name>> ELSE None,
                 IF "update" \in DOMAIN json THEN json.update ELSE TRUE)

isinstance(value, type) == value.type = type

from_value(value) ==
    IF isinstance(value, "int") THEN from_id(value.int, None, TRUE)
    ELSE IF isinstance(value, "dict") THEN from_json(value.dict)
    ELSE Raise("TypeError")

mod_text(mod) == IF mod.name # None THEN mod.name[1] ELSE str_int(mod.id)

\* Mod.path built from Mod.text instead of the id.
mod_path_by_text(mod) == path_join(MODS_DIR, RelPath(<<mod_text(mod)>>))

mod_path(mod) == path_join(MODS_DIR, RelPath(<<str_int(mod.id)>>))

installed_path(mod, base_dir) == path_join(base_dir, mod_path(mod))

mods_str(mods, sep) ==
    join(sep, [i \in 1..Len(mods) |-> path_str(mod_path(mods[i]))])

(***************************************************************************)
(* Inputs of the Mod operations.                                           *)
(***************************************************************************)
\* The largest id in a mod list.
MaxListId == 3

Foo == <<"F", "o", "o">>
srv == <<"s", "r", "v">>

Ints == (0 - MaxId)..MaxId
Names == {Foo}
Dicts ==
    {<<>>}
    \cup {[name |-> n] : n \in Names}
    \cup {[update |-> u] : u \in BOOLEAN}
    \cup {[id |-> i] : i \in Ints}
    \cup {[id |-> i, name |-> n] : i \in Ints, n \in Names}
    \cup {[id |-> i, update |-> u] : i \in Ints, u \in BOOLEAN}
    \cup {[id |-> i, name |-> n, update |-> u] : i \in Ints, n \in Names, u \in BOOLEAN}
Mods ==
    {Mod(i, n, e, u) : i \in 1..MaxId, n \in {None} \cup {<<x>> : x \in Names},
                       e \in BOOLEAN, u \in BOOLEAN}
Values ==
    {[type |-> "int", int |-> i] : i \in Ints}
    \cup {[type |-> "dict", dict |-> d] : d \in Dicts}
    \cup {[type |-> "Mod", mod |-> m] : m \in Mods}
    \cup {[type |-> "str", str |-> s] : s \in {<<"6">>}}
Bases ==
    {[abs |-> TRUE, parts |-> <<srv>>], [abs |-> FALSE, parts |-> <<srv>>],
     [abs |-> FALSE, parts |-> <<>>]}
Seps == {<<";">>, <<",">>}
FsBases == {b \in Bases : b.parts # <<>>}

\* The mods of a server's list, each built by from_value from a raw entry.
ListIds == ((0 - MaxListId)..MaxListId) \ {0}
ListMods ==
    {from_value([type |-> "int", int |-> i]).val[1] : i \in ListIds}
    \cup {from_value([type |-> "dict", dict |-> [id |-> i, name |-> Foo]]).val[1] : i \in ListIds}
ModLists == UNION {[1..n -> ListMods] : n \in 0..MaxMods}

(***************************************************************************)
(* The file system below one mod's install path.  top holds the entries of *)
(* the install directory itself, sub[d] the entries of the real directory  *)
(* d of it.  A directory is named by its position below the install path:  *)
(* <<>> is the install path, <<d>> its subdirectory d.                     *)
(***************************************************************************)
N_Addons == <<"A", "d", "d", "o", "n", "s">>
N_addons == <<"a", "d", "d", "o", "n", "s">>
N_Keys == <<"K", "e", "y", "s">>
N_keys == <<"k", "e", "y", "s">>
N_key == <<"k", "e", "y">>
N_Foo_pbo == <<"F", "o", "o", ".", "p", "b", "o">>
N_FOO_pbo == <<"F", "O", "O", ".", "p", "b", "o">>
N_foo_pbo == <<"f", "o", "o", ".", "p", "b", "o">>
N_gone == <<"g", "o", "n", "e">>

TopNames == {N_Addons, N_addons, N_Keys, N_keys, N_key}
SubDirs == {N_Addons, N_addons}
PboNames == {N_Foo_pbo, N_FOO_pbo, N_foo_pbo}
ModDir == <<>>

NoEntry == [kind |-> "none", target |-> RelPath(<<>>)]
File == [kind |-> "file", target |-> RelPath(<<>>)]
Dir == [kind |-> "dir", target |-> RelPath(<<>>)]
Link(target) == [kind |-> "link", target |-> target]

\* The mod whose installation the file system holds.
TheMod == Mod(5, None, TRUE, TRUE)

lookup(fs, d, n) ==
    IF d = ModDir
    THEN IF n \in DOMAIN fs.top THEN fs.top[n] ELSE NoEntry
    ELSE IF /\ Len(d) = 1
            /\ d[1] \in DOMAIN fs.sub
            /\ fs.top[d[1]].kind = "dir"
            /\ n \in DOMAIN fs.sub[d[1]]
         THEN fs.sub[d[1]][n]
         ELSE NoEntry

\* os.stat(): the file or directory a path leads to, following symlinks.
\* A relative link target is looked up in the directory of the link, an
\* absolute one from the root, where the install path is base_dir / mod.path.
Nowhere == [kind |-> "none", dir |-> <<>>, name |-> <<>>]
MaxSymlinks == 40

RECURSIVE stat(_, _, _, _, _)
RECURSIVE walk(_, _, _, _, _)
stat(fs, base_dir, d, n, fuel) ==
    LET e == lookup(fs, d, n) IN
    IF e.kind = "none" THEN Nowhere
    ELSE IF e.kind # "link" THEN [kind |-> e.kind, dir |-> d, name |-> n]
    ELSE IF fuel = 0 THEN Nowhere
    ELSE IF e.target.abs
         THEN LET root == installed_path(TheMod, base_dir)
                  k == Len(root.parts)
              IN IF /\ root.abs
                    /\ Len(e.target.parts) > k
                    /\ SubSeq(e.target.parts, 1, k) = root.parts
                 THEN walk(fs, base_dir, ModDir,
                           SubSeq(e.target.parts, k + 1, Len(e.target.parts)), fuel - 1)
                 ELSE Nowhere
         ELSE walk(fs, base_dir, d, e.target.parts, fuel - 1)
walk(fs, base_dir, d, parts, fuel) ==
    IF parts = <<>> THEN Nowhere
    ELSE LET r == stat(fs, base_dir, d, parts[1], fuel) IN
         IF Len(parts) = 1 THEN r
         ELSE IF r.kind = "dir" THEN walk(fs, base_dir, r.dir \o <<r.name>>, Tail(parts), fuel)
         ELSE Nowhere

exists(fs, base_dir, d, n) == stat(fs, base_dir, d, n, MaxSymlinks).kind # "none"
is_dir(fs, base_dir, d, n) == stat(fs, base_dir, d, n, MaxSymlinks).kind = "dir"

put(fs, d, n, e) ==
    IF d = ModDir THEN [fs EXCEPT !.top[n] = e]
    ELSE [fs EXCEPT !.sub[d[1]][n] = e]

\* Path.symlink_to(): os.symlink() refuses a name that is taken, whatever
\* holds it.
symlink_to(fs, d, n, target) ==
    IF lookup(fs, d, n).kind # "none" THEN [fs EXCEPT !.exc = "FileExistsError"]
    ELSE put(fs, d, n, Link(target))

\* link_to_lowercase with rename() in place of symlink_to(): the entry moves
\* to the lower-case name.
link_to_lowercase_rename(fs, base_dir, d, n) ==
    IF n = lower(n) THEN fs
    ELSE IF exists(fs, base_dir, d, lower(n)) THEN fs
    ELSE put(put([fs EXCEPT !.log = Append(@, <<n, lower(n)>>)],
                 d, lower(n), lookup(fs, d, n)), d, n, NoEntry)

link_to_lowercase(fs, base_dir, d, n) ==
    IF n = lower(n) THEN fs
    ELSE IF exists(fs, base_dir, d, lower(n)) THEN fs
    ELSE symlink_to([fs EXCEPT !.log = Append(@, <<n, lower(n)>>)],
                    d, lower(n), RelPath(<<n>>))

\* InstalledMod.pbos: the names that "*.pbo" matches in the directory that
\* path / "addons" leads to, in the order the directory lists them.
pbos(fs, base_dir, order) ==
    LET a == stat(fs, base_dir, ModDir, N_addons, MaxSymlinks)
        d == a.dir \o <<a.name>>
        found == SelectSeq(order,
                     LAMBDA n : lookup(fs, d, n).kind # "none"
                                /\ endswith(n, <<".", "p", "b", "o">>))
    IN IF a.kind # "dir" THEN <<>>
       ELSE [i \in 1..Len(found) |-> [dir |-> d, name |-> found[i]]]

\* The value of a statement: the one file system it leaves.
only(results) == CHOOSE fs \in results : TRUE

RECURSIVE link_all(_, _, _, _)
link_all(fs, base_dir, paths, i) ==
    IF i > Len(paths) \/ fs.exc # "" THEN fs
    ELSE only({link_all(s, base_dir, paths, i + 1) :
                  s \in {link_to_lowercase(fs, base_dir, paths[i].dir, paths[i].name)}})

\* Each statement runs on the file system the previous one left, unless that
\* one raised.
fix_paths(fs0, base_dir, order) ==
    LET path == installed_path(TheMod, base_dir)
        addons(fs) ==
            IF is_dir(fs, base_dir, ModDir, N_Addons)
            THEN link_to_lowercase(fs, base_dir, ModDir, N_Addons)
            ELSE fs
        keys(fs) ==
            IF fs.exc # "" THEN fs
            ELSE IF is_dir(fs, base_dir, ModDir, N_Keys)
            THEN link_to_lowercase(fs, base_dir, ModDir, N_Keys)
            ELSE fs
        key(fs) ==
            IF fs.exc # "" THEN fs
            ELSE IF /\ ~exists(fs, base_dir, ModDir, N_keys)
                    /\ is_dir(fs, base_dir, ModDir, N_key)
            THEN symlink_to(fs, ModDir, N_keys, path_join(path, RelPath(<<N_key>>)))
            ELSE fs
        pbo(fs) ==
            IF fs.exc # "" THEN fs
            ELSE only({link_all(fs, base_dir, paths, 1) :
                          paths \in {pbos(fs, base_dir, order)}})
    IN only({pbo(s3) : s3 \in {key(s2) : s2 \in {keys(s1) : s1 \in {addons(fs0)}}}})

(***************************************************************************)
(* Initial states.                                                         *)
(***************************************************************************)
NoCall == [op |-> "init"]
NoResult == [exc |-> "", val |-> <<>>]
EmptyTop == [n \in TopNames |-> NoEntry]
EmptySub == [d \in SubDirs |-> [n \in PboNames |-> NoEntry]]

Gone == RelPath(<<N_gone>>)

TopChoices(n) ==
    IF n = N_Addons THEN {NoEntry, Dir, File}
    ELSE IF n = N_addons THEN {NoEntry, Dir, File, Link(RelPath(<<N_Addons>>)), Link(Gone)}
    ELSE IF n = N_Keys THEN {NoEntry, Dir}
    ELSE IF n = N_keys THEN {NoEntry, Dir, Link(Gone)}
    ELSE {NoEntry, Dir}

PboChoices(n) ==
    IF n = N_foo_pbo THEN {NoEntry, File, Link(RelPath(<<N_Foo_pbo>>)), Link(Gone)}
    ELSE {NoEntry, File}

Tops == {t \in [TopNames -> UNION {TopChoices(n) : n \in TopNames}] :
            \A n \in TopNames : t[n] \in TopChoices(n)}
Contents == {c \in [PboNames -> UNION {PboChoices(n) : n \in PboNames}] :
                \A n \in PboNames : c[n] \in PboChoices(n)}

InitMod ==
    /\ call = NoCall
    /\ ret = NoResult

NoFs ==
    /\ top = EmptyTop
    /\ sub = EmptySub
    /\ base = [abs |-> TRUE, parts |-> <<srv>>]
    /\ last = [op |-> "init", log |-> <<>>]
    /\ err = ""
    /\ runs = 0

InitFs ==
    /\ top \in Tops
    /\ sub \in [SubDirs -> Contents]
    /\ \A d \in SubDirs : top[d].kind # "dir" => sub[d] = EmptySub[d]
    /\ (top[N_Addons].kind = "dir" /\ top[N_addons].kind = "dir")
          => sub[N_Addons] \in {EmptySub[N_Addons],
                                [EmptySub[N_Addons] EXCEPT ![N_Foo_pbo] = File]}
    /\ base \in FsBases
    /\ last = [op |-> "init", log |-> <<>>]
    /\ err = ""
    /\ runs = 0

Init == InitMod /\ NoFs
InitFix == InitMod /\ InitFs
InitLink == InitMod /\ InitFs /\ base.abs

(***************************************************************************)
(* The operations of Mod, InstalledMod.path and mods_str: one call, on any  *)
(* input.                                                                  *)
(***************************************************************************)
FromId ==
    /\ call = NoCall
    /\ \E n \in Ints, name \in {None} \cup {<<x>> : x \in Names}, update \in BOOLEAN :
        /\ call' = [op |-> "from_id", ident |-> n, name |-> name, update |-> update]
        /\ ret' = from_id(n, name, update)
        /\ UNCHANGED fsVars

FromJson ==
    /\ call = NoCall
    /\ \E json \in Dicts :
        /\ call' = [op |-> "from_json", json |-> json]
        /\ ret' = from_json(json)
        /\ UNCHANGED fsVars

FromValue ==
    /\ call = NoCall
    /\ \E value \in Values :
        /\ call' = [op |-> "from_value", value |-> value]
        /\ ret' = from_value(value)
        /\ UNCHANGED fsVars

InstalledPath ==
    /\ call = NoCall
    /\ \E mod \in Mods, base_dir \in Bases :
        /\ call' = [op |-> "path", mod |-> mod, base_dir |-> base_dir]
        /\ ret' = Return(installed_path(mod, base_dir))
        /\ UNCHANGED fsVars

ModsStr ==
    /\ call = NoCall
    /\ \E mods \in ModLists, sep \in Seps :
        /\ call' = [op |-> "mods_str", mods |-> mods, sep |-> sep]
        /\ ret' = Return(mods_str(mods, sep))
        /\ UNCHANGED fsVars

Next == FromId \/ FromJson \/ FromValue \/ InstalledPath \/ ModsStr

Spec == Init /\ [][Next]_vars

(***************************************************************************)
(* InstalledMod.fix_paths, run up to MaxRuns times on one installation.    *)
(***************************************************************************)
\* The orders in which a directory may list the package files it holds.
Listed == {n \in PboNames : \E d \in SubDirs : sub[d][n].kind # "none"}
Orders == {o \in [1..Cardinality(Listed) -> Listed] :
              \A i, j \in DOMAIN o : o[i] = o[j] => i = j}

FixPaths ==
    /\ runs < MaxRuns
    /\ \E order \in Orders :
        \E r \in {fix_paths([top |-> top, sub |-> sub, exc |-> "", log |-> <<>>],
                            base, order)} :
             /\ top' = r.top
             /\ sub' = r.sub
             /\ err' = r.exc
             /\ last' = [op |-> "fix_paths", log |-> r.log]
    /\ runs' = runs + 1
    /\ UNCHANGED <<base, call, ret>>

NextFix == FixPaths

SpecFix == InitFix /\ [][NextFix]_vars

(***************************************************************************)
(* link_to_lowercase, called on any path of the installation.              *)
(***************************************************************************)
LinkToLowercase ==
    \E d \in {ModDir} \cup {<<x>> : x \in {y \in SubDirs : top[y].kind = "dir"}} :
      \E n \in IF d = ModDir THEN TopNames ELSE PboNames :
        \E r \in {link_to_lowercase([top |-> top, sub |-> sub, exc |-> "", log |-> <<>>],
                                    base, d, n)} :
             /\ top' = r.top
             /\ sub' = r.sub
             /\ err' = r.exc
             /\ last' = [op |-> "link_to_lowercase", dir |-> d, name |-> n, log |-> r.log]
    /\ UNCHANGED <<base, runs, call, ret>>

NextLink == LinkToLowercase

SpecLink == InitLink /\ [][NextLink]_vars

(***************************************************************************)
(* Properties.                                                             *)
(***************************************************************************)
Fs == [top |-> top, sub |-> sub, exc |-> "", log |-> <<>>]

EnabledPaths(mods) ==
    LET on == SelectSeq(mods, LAMBDA m : m.enabled)
    IN [i \in 1..Len(on) |-> path_str(mod_path(on[i]))]

\* C1: the machine string of mods_str is the paths of the enabled mods, in
\* input order, joined by the separator; it holds no path of a disabled mod.
C1_Original ==
    call.op = "mods_str" => ret.val[1] = join(call.sep, EnabledPaths(call.mods))

\* C2: fix_paths is idempotent: a run that follows a run that completed
\* raises no error and leaves every directory entry as it was.
C2_Original ==
    [][(last.op = "fix_paths" /\ err = "" /\ last'.op = "fix_paths")
        => (err' = "" /\ top' = top /\ sub' = sub)]_vars

\* C3: link_to_lowercase(path) never raises; it creates the symlink
\* lower(name) -> name exactly when lower(name) differs from name and no
\* entry of any kind (a dangling symlink included) holds lower(name), and
\* otherwise creates nothing.
C3_Original ==
    [][last'.op = "link_to_lowercase" =>
          LET d == last'.dir
              n == last'.name
              after == [top |-> top', sub |-> sub']
              free == lookup(Fs, d, lower(n)).kind = "none"
          IN /\ err' = ""
             /\ IF lower(n) # n /\ free
                THEN after = [top |-> put(Fs, d, lower(n), Link(RelPath(<<n>>))).top,
                              sub |-> put(Fs, d, lower(n), Link(RelPath(<<n>>))).sub]
                ELSE top' = top /\ sub' = sub]_vars

\* C4: fix_paths is purely additive: every entry that exists before a run is
\* the same entry after it, and an entry that a run changes was absent, is a
\* symlink afterwards and has a lower-case name.
Additive(before, after, names) ==
    \A n \in names :
        /\ before[n].kind # "none" => after[n] = before[n]
        /\ after[n] # before[n] => after[n].kind = "link" /\ n = lower(n)

C4_Additive ==
    [][last'.op = "fix_paths" =>
          /\ Additive(top, top', TopNames)
          /\ \A d \in SubDirs : Additive(sub[d], sub'[d], PboNames)]_vars

\* C4 witness: a completed run that created a link by link_to_lowercase next
\* to a lower-case directory it had to keep.
C4_Witness ==
    /\ last.op = "fix_paths"
    /\ err = ""
    /\ last.log # <<>>
    /\ top[N_keys] = Dir
    /\ top[N_addons] = Link(RelPath(<<N_Addons>>))

\* C5: Mod.from_id(0) fails with the invalid-id error and yields no Mod; for
\* n # 0 it yields a Mod with id = |n| and enabled = (n > 0), so the id of
\* every Mod it builds is positive.
C5_FromId ==
    call.op = "from_id" =>
        IF call.ident = 0
        THEN ret.exc = "ValueError" /\ ret.val = <<>>
        ELSE /\ ret.exc = ""
             /\ ret.val[1].id = (IF call.ident < 0 THEN 0 - call.ident ELSE call.ident)
             /\ ret.val[1].enabled = (call.ident > 0)
             /\ ret.val[1].id > 0

\* C5 witness: from_id has built a Mod from a negative id.
C5_Witness ==
    /\ call.op = "from_id"
    /\ call.ident = 0 - MaxId
    /\ ret.exc = ""
    /\ ret.val[1].enabled = FALSE

\* C6: Mod.from_value builds a Mod from an integer and from a record with an
\* id, returns an already-built Mod as it is, and fails with the
\* unsupported-type error on every other shape.
C6_Original ==
    call.op = "from_value" =>
        LET value == call.value IN
        IF value.type = "int" THEN value.int # 0 => ret.exc = ""
        ELSE IF value.type = "dict"
             THEN ("id" \in DOMAIN value.dict /\ value.dict.id # 0) => ret.exc = ""
        ELSE IF value.type = "Mod" THEN ret = Return(value.mod)
        ELSE ret.exc = "TypeError"

RecordName(json) == IF "name" \in DOMAIN json THEN <<json.name>> ELSE <<>>
RecordUpdate(json) == IF "update" \in DOMAIN json THEN json.update ELSE TRUE

\* C7 as stated: from a record with a nonzero id, Mod.from_json yields a Mod
\* with the record's id, name and update (update true when omitted) and
\* enabled true.
C7_Original ==
    (call.op = "from_json" /\ "id" \in DOMAIN call.json /\ call.json.id # 0) =>
        ret = Return(Mod(call.json.id, RecordName(call.json), TRUE, RecordUpdate(call.json)))

\* C7 as amended: from a record with a positive id, Mod.from_json yields a
\* Mod with the record's id, name and update (update true when omitted) and
\* enabled true; from a record with a negative id it yields the Mod with the
\* absolute value as id, the same name and update, and enabled false.
C7_FromJson ==
    (call.op = "from_json" /\ "id" \in DOMAIN call.json /\ call.json.id # 0) =>
        IF call.json.id > 0
        THEN ret = Return(Mod(call.json.id, RecordName(call.json), TRUE,
                              RecordUpdate(call.json)))
        ELSE ret = Return(Mod(0 - call.json.id, RecordName(call.json), FALSE,
                              RecordUpdate(call.json)))

\* C7 witness: from_json has built the Mod of {"id": 5, "name": "Foo",
\* "update": false}.
C7_Witness ==
    /\ call.op = "from_json"
    /\ call.json = [id |-> 5, name |-> Foo, update |-> FALSE]
    /\ ret.exc = ""
    /\ ret.val[1].update = FALSE

\* C8: after a completed fix_paths on an install path with a directory key and neither
\* keys nor Keys, keys is a symlink that leads to the directory key, for an
\* absolute and for a relative base directory; and a run that finds a keys
\* entry after its first two steps creates no link to key.
KeyLink == Link(path_join(installed_path(TheMod, base), RelPath(<<N_key>>)))

C8_Original ==
    [][last'.op = "fix_paths" =>
          LET after == [top |-> top', sub |-> sub', exc |-> "", log |-> <<>>] IN
          /\ (err' = "" /\ top[N_key] = Dir /\ top[N_keys] = NoEntry /\ top[N_Keys] = NoEntry)
                => /\ top'[N_keys].kind = "link"
                   /\ stat(after, base, ModDir, N_keys, MaxSymlinks)
                        = [kind |-> "dir", dir |-> ModDir, name |-> N_key]
          /\ top[N_keys] # NoEntry => top'[N_keys] = top[N_keys]
          /\ (top[N_keys] = NoEntry /\ top[N_Keys] = Dir) => top'[N_keys] # KeyLink]_vars

ParseDigit(c) == IF \E d \in 0..9 : digit(d) = c THEN CHOOSE d \in 0..9 : digit(d) = c ELSE 0 - 1

RECURSIVE ParseNat(_)
ParseNat(s) ==
    IF s = <<>> THEN 0 - 1
    ELSE IF ParseDigit(s[Len(s)]) < 0 THEN 0 - 1
    ELSE IF Len(s) = 1 THEN ParseDigit(s[1])
    ELSE IF ParseNat(SubSeq(s, 1, Len(s) - 1)) < 0 THEN 0 - 1
    ELSE 10 * ParseNat(SubSeq(s, 1, Len(s) - 1)) + ParseDigit(s[Len(s)])

C10_Original ==
    [][last'.op = "fix_paths" =>
          \A order \in Orders :
              \A r \in {fix_paths(Fs, base, order)} : r.top = top' /\ r.sub = sub']_vars

====
